---- MODULE Spec2Model ----
(***************************************************************************)
(* Model of the boarding engine of aircraft_sim (src/aircraft/mod.rs).     *)
(* The cabin is a grid of tiles; update() advances it one tick in a single *)
(* scan.  The Tile type (src/aircraft/tile.rs) is not part of the sources  *)
(* at hand; its operations are modelled from section 4.1 of the            *)
(* specification.                                                          *)
(***************************************************************************)
EXTENDS Integers, Sequences, FiniteSets, TLC

VARIABLES size, layout, passengers, targeted_seats, panicked, added, driver

vars == <<size, layout, passengers, targeted_seats, panicked, added, driver>>

(* ------------------------------ bounds --------------------------------- *)
MaxW == 2
MaxH == 2
MaxPassengers == 2
MaxTiles == 3
MaxBoardTicks == 25
MaxStdW == 5
MaxStdH == 5
MaxSingleTicks == 12
FarH == 1003
MaxRowW == 4
MaxRowTicks == 10
MaxFarTicks == 40
MaxGenW == 5
MaxGenH == 3
MaxShuffle == 3
MaxPos == 3
MaxLineH == 5
LinePassengers == 4
MaxLineTicks == 8

(* --------------------------- program constants ------------------------- *)
MAX_ITERATIONS == 1000
InitialDistance == 1000

(* ------------------------------ data ----------------------------------- *)
Variant == {"Aisle", "Seat", "Entrance", "None"}

\* Option<T> is a sequence of length 0 (None) or 1 (Some).
NoneOpt == <<>>
Some(v) == <<v>>
is_some(o) == Len(o) = 1
unwrap(o) == o[1]

Behaviour == {"Wait", "Stow", "Move_North", "Move_South", "Move_East",
              "Move_West", "Panic"}

Abs(n) == IF n < 0 THEN -n ELSE n

\* `f as usize` on a float: negative values saturate to 0.
AsUsize(n) == IF n < 0 THEN 0 ELSE n

Coords(sz) == (0 .. sz[1] - 1) \X (0 .. sz[2] - 1)
InGrid(sz, x, y) == x >= 0 /\ x < sz[1] /\ y >= 0 /\ y < sz[2]

(* ------------------------------ Person --------------------------------- *)
Person(n, s, b) == [name |-> n, seat |-> s, baggage |-> b]
get_seat(p) == p.seat
has_baggage(p) == p.baggage
remove_baggage(p) == [p EXCEPT !.baggage = FALSE]

(* ------------------------------- Tile ---------------------------------- *)
NewTile(k) == [variant |-> k, occupier |-> NoneOpt, passer |-> NoneOpt,
               updated |-> FALSE, pass_count |-> FALSE]
aisle == NewTile("Aisle")
seat == NewTile("Seat")
entrance == NewTile("Entrance")
none == NewTile("None")

occupy(t, p) == [t EXCEPT !.occupier = Some(p), !.updated = TRUE]
free(t) == [t EXCEPT !.occupier = NoneOpt, !.updated = TRUE]
pass_in(t, p) == [t EXCEPT !.passer = Some(p), !.pass_count = TRUE,
                           !.updated = TRUE]
pass_out(t) == [t EXCEPT !.passer = NoneOpt, !.pass_count = FALSE,
                         !.updated = TRUE]
is_occupied(t) == is_some(t.occupier)
is_allowing(t) == is_some(t.passer)
pass_count(t) == t.pass_count
has_updated(t) == t.updated
set_updated(t, b) == [t EXCEPT !.updated = b]
get_variant(t) == t.variant
get_occupier(t) == t.occupier
get_passer(t) == t.passer

(* ------------------------- movement policy ----------------------------- *)
\* Variant of AisleMoves without the Wait candidate.
AisleMoves_NoWait == << <<"Move_North", 0, -1>>, <<"Move_South", 0, 1>>,
                        <<"Move_East", 1, 0>>, <<"Move_West", -1, 0>> >>

AisleMoves == << <<"Wait", 0, 0>>, <<"Move_North", 0, -1>>,
                 <<"Move_South", 0, 1>>, <<"Move_East", 1, 0>>,
                 <<"Move_West", -1, 0>> >>
\* Variant of SeatMoves with the North and South candidates of AisleMoves.
SeatMoves_AsAisle == AisleMoves

\* Variant of SeatMoves without the Wait candidate.
SeatMoves_NoWait == << <<"Move_East", 1, 0>>, <<"Move_West", -1, 0>> >>

SeatMoves == << <<"Wait", 0, 0>>, <<"Move_East", 1, 0>>,
                <<"Move_West", -1, 0>> >>

\* Variant of AisleCandidate without the check of the row of East and West
\* candidates.
AisleCandidate_NoRowCheck(sz, lay, i, j, tx, ty, cand, cur) ==
    LET dest_x == AsUsize(i + cand[2])
        dest_y == AsUsize(j + cand[3])
        new_distance == Abs(tx - dest_x) + Abs(ty - dest_y)
    IN  IF cur[1] = "Panic" THEN cur
        ELSE IF new_distance < cur[2]
        THEN IF ~InGrid(sz, dest_x, dest_y)
             THEN <<"Panic", cur[2]>>
             ELSE IF ~is_occupied(lay[<<dest_x, dest_y>>])
                     \/ <<dest_x, dest_y>> = <<i, j>>
             THEN <<cand[1], new_distance>>
             ELSE IF ~is_allowing(lay[<<dest_x, dest_y>>])
                     /\ get_variant(lay[<<dest_x, dest_y>>]) = "Seat"
             THEN <<cand[1], new_distance>>
             ELSE cur
        ELSE cur

\* One iteration of the candidate loop of the Aisle/Entrance branch.
\* cur is the pair (Behaviour, distance) held in current_move.
AisleCandidate(sz, lay, i, j, tx, ty, cand, cur) ==
    LET dest_x == AsUsize(i + cand[2])
        dest_y == AsUsize(j + cand[3])
        new_distance == Abs(tx - dest_x) + Abs(ty - dest_y)
    IN  IF cur[1] = "Panic" THEN cur
        ELSE IF new_distance < cur[2]
        THEN IF ~(cand[1] = "Move_East" /\ dest_y # ty)
                /\ ~(cand[1] = "Move_West" /\ dest_y # ty)
             THEN IF ~InGrid(sz, dest_x, dest_y)
                  THEN <<"Panic", cur[2]>>
                  ELSE IF ~is_occupied(lay[<<dest_x, dest_y>>])
                          \/ <<dest_x, dest_y>> = <<i, j>>
                  THEN <<cand[1], new_distance>>
                  ELSE IF ~is_allowing(lay[<<dest_x, dest_y>>])
                          /\ get_variant(lay[<<dest_x, dest_y>>]) = "Seat"
                  THEN <<cand[1], new_distance>>
                  ELSE cur
             ELSE cur
        ELSE cur

\* One iteration of the candidate loop of the Seat branch: the destination
\* stays a float (no cast), and no tile is consulted.
SeatCandidate(i, j, tx, ty, cand, cur) ==
    LET dest_x == i + cand[2]
        dest_y == j + cand[3]
        new_distance == Abs(tx - dest_x) + Abs(ty - dest_y)
    IN  IF new_distance < cur[2] THEN <<cand[1], new_distance>> ELSE cur

RECURSIVE AisleLoop(_, _, _, _, _, _, _, _)
AisleLoop(sz, lay, i, j, tx, ty, k, cur) ==
    IF k > Len(AisleMoves) THEN cur
    ELSE AisleLoop(sz, lay, i, j, tx, ty, k + 1,
                   AisleCandidate(sz, lay, i, j, tx, ty, AisleMoves[k], cur))

RECURSIVE SeatLoop(_, _, _, _, _, _)
SeatLoop(i, j, tx, ty, k, cur) ==
    IF k > Len(SeatMoves) THEN cur
    ELSE SeatLoop(i, j, tx, ty, k + 1,
                  SeatCandidate(i, j, tx, ty, SeatMoves[k], cur))

\* Variant of determine_move without the Stow case.
determine_move_NoStow(sz, lay, i, j, target_x, target_y, baggage) ==
    LET start == <<"Wait", InitialDistance>>
        v == get_variant(lay[<<i, j>>])
    IN  IF v = "Aisle" \/ v = "Entrance"
        THEN AisleLoop(sz, lay, i, j, target_x, target_y, 1, start)
        ELSE IF v = "Seat"
        THEN SeatLoop(i, j, target_x, target_y, 1, start)
        ELSE start

\* Variant of determine_move that stows on the target column instead of the
\* target row.
determine_move_StowOnColumn(sz, lay, i, j, target_x, target_y, baggage) ==
    LET start == <<"Wait", InitialDistance>>
        v == get_variant(lay[<<i, j>>])
    IN  IF v = "Aisle" \/ v = "Entrance"
        THEN IF target_x = i /\ baggage
             THEN <<"Stow", 0>>
             ELSE AisleLoop(sz, lay, i, j, target_x, target_y, 1, start)
        ELSE IF v = "Seat"
        THEN SeatLoop(i, j, target_x, target_y, 1, start)
        ELSE start

\* determine_move: the pair (Behaviour, distance); Behaviour "Panic" stands
\* for an out-of-bounds index into the layout.
determine_move(sz, lay, i, j, target_x, target_y, baggage) ==
    LET start == <<"Wait", InitialDistance>>
        v == get_variant(lay[<<i, j>>])
    IN  IF v = "Aisle" \/ v = "Entrance"
        THEN IF target_y = j /\ baggage
             THEN <<"Stow", 0>>
             ELSE AisleLoop(sz, lay, i, j, target_x, target_y, 1, start)
        ELSE IF v = "Seat"
        THEN SeatLoop(i, j, target_x, target_y, 1, start)
        ELSE start

(* ----------------------------- update ---------------------------------- *)
\* The state threaded through the scan of update(): the grid, the boarding
\* queue, whether the call has aborted, and the names of the passengers the
\* call has moved, one entry per executed move.
ScanState(lay, q, pk, mv) ==
    [layout |-> lay, passengers |-> q, panicked |-> pk, moved |-> mv]

Abort(s) == [s EXCEPT !.panicked = TRUE]

\* Variant of MoveCoords with North and South, East and West exchanged.
MoveCoords_Flipped(b, x, y) ==
    CASE b = "Move_North" -> <<x, y + 1>>
      [] b = "Move_South" -> <<x, y - 1>>
      [] b = "Move_East" -> <<x - 1, y>>
      [] b = "Move_West" -> <<x + 1, y>>
      [] OTHER -> <<x, y>>

\* (x, y - 1), (x, y + 1), (x + 1, y), (x - 1, y) of the directional match.
MoveCoords(b, x, y) ==
    CASE b = "Move_North" -> <<x, y - 1>>
      [] b = "Move_South" -> <<x, y + 1>>
      [] b = "Move_East" -> <<x + 1, y>>
      [] b = "Move_West" -> <<x - 1, y>>
      [] OTHER -> <<x, y>>

CountMove(mv, p) == Append(mv, p.name)

\* Variant of MoveOccupier that leaves the mover on its source tile as well.
MoveOccupier_Copy(lay, src, dst, p) ==
    [lay EXCEPT ![dst] = occupy(@, p)]

\* free() the source, occupy() the destination.
MoveOccupier(lay, src, dst, p) ==
    [lay EXCEPT ![src] = free(@), ![dst] = occupy(@, p)]

\* Variant of PassOccupier that takes the occupier slot of the destination.
PassOccupier_Overwrite(lay, src, dst, p) ==
    [lay EXCEPT ![src] = free(@), ![dst] = occupy(@, p)]

\* free() the source, pass_in() at the destination.
PassOccupier(lay, src, dst, p) ==
    [lay EXCEPT ![src] = free(@), ![dst] = pass_in(@, p)]

\* Variant of MovePasser that leaves the mover in the passer slot as well.
MovePasser_Copy(lay, src, dst, p) ==
    [lay EXCEPT ![dst] = occupy(@, p)]

\* pass_out() of the source, occupy() the destination.
MovePasser(lay, src, dst, p) ==
    [lay EXCEPT ![src] = pass_out(@), ![dst] = occupy(@, p)]

\* pass_out() of the source, pass_in() at the destination.
PassPasser(lay, src, dst, p) ==
    [lay EXCEPT ![src] = pass_out(@), ![dst] = pass_in(@, p)]

\* Step (a): the occupier of (x, y) chooses a move and executes it.
OccupierStep(sz, s, x, y) ==
    LET lay == s.layout
        t == lay[<<x, y>>]
    IN  IF ~is_some(get_occupier(t)) THEN s
        ELSE LET p == unwrap(get_occupier(t))
             IN  IF ~is_some(get_seat(p)) THEN Abort(s)
                 ELSE
                 LET target == unwrap(get_seat(p))
                     current_move == determine_move(sz, lay, x, y, target[1],
                                                    target[2], has_baggage(p))
                     coords == MoveCoords(current_move[1], x, y)
                 IN  IF current_move[1] = "Panic" THEN Abort(s)
                     ELSE IF current_move[1] # "Wait"
                             /\ current_move[1] # "Stow"
                     THEN IF ~InGrid(sz, coords[1], coords[2]) THEN Abort(s)
                          ELSE IF ~is_occupied(lay[coords])
                          THEN [s EXCEPT
                                 !.layout = MoveOccupier(lay, <<x, y>>, coords, p),
                                 !.moved = CountMove(@, p)]
                          ELSE IF ~is_allowing(lay[coords])
                          THEN [s EXCEPT
                                 !.layout = PassOccupier(lay, <<x, y>>, coords, p),
                                 !.moved = CountMove(@, p)]
                          ELSE s
                     ELSE IF current_move[1] = "Stow"
                     THEN [s EXCEPT !.layout[<<x, y>>].occupier =
                                        Some(remove_baggage(p))]
                     ELSE s

\* Step (b): the passer of (x, y) chooses a move and executes it.
PasserStep(sz, s, x, y) ==
    LET lay == s.layout
        t == lay[<<x, y>>]
    IN  IF ~(is_allowing(t) /\ pass_count(t)) THEN s
        ELSE LET p == unwrap(get_passer(t))
             IN  IF ~is_some(get_seat(p)) THEN Abort(s)
                 ELSE
                 LET target == unwrap(get_seat(p))
                     current_move == determine_move(sz, lay, x, y, target[1],
                                                    target[2], has_baggage(p))
                     coords == MoveCoords(current_move[1], x, y)
                 IN  IF current_move[1] = "Panic" THEN Abort(s)
                     ELSE IF current_move[1] # "Wait"
                             /\ current_move[1] # "Stow"
                     THEN IF ~InGrid(sz, coords[1], coords[2]) THEN Abort(s)
                          ELSE IF ~is_occupied(lay[coords])
                          THEN [s EXCEPT
                                 !.layout = MovePasser(lay, <<x, y>>, coords, p),
                                 !.moved = CountMove(@, p)]
                          ELSE IF ~is_allowing(lay[coords])
                          THEN [s EXCEPT
                                 !.layout = PassPasser(lay, <<x, y>>, coords, p),
                                 !.moved = CountMove(@, p)]
                          ELSE s
                     ELSE IF current_move[1] = "Stow"
                     THEN [s EXCEPT !.layout[<<x, y>>].passer =
                                        Some(remove_baggage(p))]
                     ELSE s

\* Variant of Admit that takes the head of the queue.
Admit_Head(s, x, y) ==
    LET t == s.layout[<<x, y>>]
        q == s.passengers
    IN  IF get_variant(t) = "Entrance" /\ Len(q) > 0 /\ ~is_occupied(t)
        THEN [s EXCEPT !.layout[<<x, y>>] = occupy(@, q[1]),
                       !.passengers = SubSeq(q, 2, Len(q))]
        ELSE s

\* Step (c): an unoccupied Entrance admits the tail of the queue.
Admit(s, x, y) ==
    LET t == s.layout[<<x, y>>]
        q == s.passengers
    IN  IF get_variant(t) = "Entrance" /\ Len(q) > 0 /\ ~is_occupied(t)
        THEN [s EXCEPT !.layout[<<x, y>>] = occupy(@, q[Len(q)]),
                       !.passengers = SubSeq(q, 1, Len(q) - 1)]
        ELSE s

\* Variant of ProcessCell without the has_updated() guard.
ProcessCell_NoUpdatedGuard(sz, s, x, y) ==
    LET t == s.layout[<<x, y>>]
    IN  IF s.panicked THEN s
        ELSE IF get_variant(t) = "Entrance" \/ get_variant(t) = "Aisle"
                \/ get_variant(t) = "Seat"
        THEN LET a == OccupierStep(sz, s, x, y)
                 b == IF a.panicked THEN a ELSE PasserStep(sz, a, x, y)
             IN  IF b.panicked THEN b ELSE Admit(b, x, y)
        ELSE s

\* Variant of ProcessCell that admits before the occupier step.
ProcessCell_AdmitFirst(sz, s, x, y) ==
    LET t == s.layout[<<x, y>>]
    IN  IF s.panicked THEN s
        ELSE IF ~has_updated(t)
                /\ (get_variant(t) = "Entrance" \/ get_variant(t) = "Aisle"
                    \/ get_variant(t) = "Seat")
        THEN LET c == Admit(s, x, y)
                 a == OccupierStep(sz, c, x, y)
             IN  IF a.panicked THEN a ELSE PasserStep(sz, a, x, y)
        ELSE s

\* Variant of ProcessCell that handles a None tile as an Aisle tile.
ProcessCell_NoneAsAisle(sz, s, x, y) ==
    LET t == s.layout[<<x, y>>]
        paved == IF get_variant(t) = "None"
                 THEN [s EXCEPT !.layout[<<x, y>>].variant = "Aisle"]
                 ELSE s
    IN  IF s.panicked THEN s
        ELSE IF ~has_updated(t)
        THEN LET a == OccupierStep(sz, paved, x, y)
                 b == IF a.panicked THEN a ELSE PasserStep(sz, a, x, y)
             IN  IF b.panicked THEN b ELSE Admit(b, x, y)
        ELSE s

\* The body of the scan for one cell.
ProcessCell(sz, s, x, y) ==
    LET t == s.layout[<<x, y>>]
    IN  IF s.panicked THEN s
        ELSE IF ~has_updated(t)
                /\ (get_variant(t) = "Entrance" \/ get_variant(t) = "Aisle"
                    \/ get_variant(t) = "Seat")
        THEN LET a == OccupierStep(sz, s, x, y)
                 b == IF a.panicked THEN a ELSE PasserStep(sz, a, x, y)
             IN  IF b.panicked THEN b ELSE Admit(b, x, y)
        ELSE s

\* Variant of Scan that visits the cells of a column from south to north.
RECURSIVE Scan_SouthFirst(_, _, _, _)
Scan_SouthFirst(sz, s, lo, hi) ==
    IF lo >= hi THEN s
    ELSE IF hi = lo + 1
    THEN ProcessCell(sz, s, lo \div sz[2], sz[2] - 1 - (lo % sz[2]))
    ELSE LET mid == (lo + hi) \div 2
             first == Scan_SouthFirst(sz, s, lo, mid)
         IN  IF first.panicked THEN first
             ELSE Scan_SouthFirst(sz, first, mid, hi)

\* for x in 0..size.0 { for y in 0..size.1 { ... } }: cell k of the scan is
\* (k div H, k mod H).  Scan processes the cells lo .. hi - 1 in that order
\* (the first half, then the second half, which keeps the evaluation
\* shallow on long cabins).
RECURSIVE Scan(_, _, _, _)
Scan(sz, s, lo, hi) ==
    IF lo >= hi THEN s
    ELSE IF hi = lo + 1 THEN ProcessCell(sz, s, lo \div sz[2], lo % sz[2])
    ELSE LET mid == (lo + hi) \div 2
             first == Scan(sz, s, lo, mid)
         IN  IF first.panicked THEN first ELSE Scan(sz, first, mid, hi)

\* Variant of reset() that sets the flag of every tile.
reset_Raise(lay) == [c \in DOMAIN lay |-> set_updated(lay[c], TRUE)]

\* Variant of reset() that clears no flag.
reset_Nothing(lay) == lay

\* reset(): set_updated(false) on every tile.
reset(lay) == [c \in DOMAIN lay |-> set_updated(lay[c], FALSE)]

NoMoves == <<>>

\* update(): the scan, then reset(); an aborted call leaves the grid as the
\* scan had it when it aborted.
update(sz, lay, q) ==
    LET s == Scan(sz, ScanState(lay, q, FALSE, NoMoves), 0, sz[1] * sz[2])
    IN  IF s.panicked THEN s ELSE [s EXCEPT !.layout = reset(s.layout)]

\* Variant of is_complete whose flag is overwritten by every seat, so that
\* the last targeted seat alone decides.
is_complete_last(lay, ts) ==
    ts = <<>> \/ is_occupied(lay[ts[Len(ts)]])

is_complete(lay, ts) ==
    \A n \in 1 .. Len(ts) : is_occupied(lay[ts[n]])

\* Aircraft::new(x, y) followed by clear(): every tile an empty Aisle.
new(x, y) == [c \in Coords(<<x, y>>) |-> aisle]

(* --------------------------- state machine ----------------------------- *)
\* The caller driving the cabin: a test loop or run_to_completion().
\* iterations is the loop counter of the code; calls counts the update()
\* calls made and early records an update() made on a complete cabin.
Driver(pc, t) == [pc |-> pc, iterations |-> 0, test |-> t, calls |-> 0,
                  early |-> FALSE]
Idle == Driver("idle", "none")

\* The cabins explored: the MaxW x MaxH grid, and a single column one tile
\* longer.
Sizes == {<<MaxW, MaxH>>, <<1, MaxH + 1>>}

Init ==
    /\ size \in Sizes
    /\ layout = new(size[1], size[2])
    /\ passengers = <<>>
    /\ targeted_seats = <<>>
    /\ panicked = FALSE
    /\ added = 0
    /\ driver = Idle

OnBoard(lay) ==
    {c \in DOMAIN lay : is_some(lay[c].occupier) \/ is_some(lay[c].passer)}

NonAisle(lay) == {c \in DOMAIN lay : get_variant(lay[c]) # "Aisle"}

\* Variant of set_tile that changes the kind and keeps the two slots.
set_tile_KeepSlots(lay, x, y, var) ==
    [lay EXCEPT ![<<x, y>>].variant = var]

\* set_tile(x, y, var): the tile is replaced by a fresh tile of that kind.
set_tile(lay, x, y, var) ==
    [lay EXCEPT ![<<x, y>>] =
        CASE var = "Aisle" -> aisle
          [] var = "Seat" -> seat
          [] var = "Entrance" -> entrance
          [] var = "None" -> none]

get_size(sz) == <<sz[1], sz[2]>>
get_tile_variant(lay, x, y) == get_variant(lay[<<x, y>>])
check_if_occupied(lay, x, y) == is_occupied(lay[<<x, y>>])
check_if_allowing(lay, x, y) == is_allowing(lay[<<x, y>>])

\* Variant of add_passenger that does not record the target.
add_passenger_NoTarget(p) ==
    /\ ~panicked
    /\ driver.pc = "idle"
    /\ added < MaxPassengers
    /\ passengers' = Append(passengers, p)
    /\ added' = added + 1
    /\ UNCHANGED <<size, layout, targeted_seats, panicked, driver>>

\* add_passenger(p): the target, if any, is recorded, and p joins the queue.
add_passenger(p) ==
    /\ ~panicked
    /\ driver.pc = "idle"
    /\ added < MaxPassengers
    /\ targeted_seats' = IF is_some(get_seat(p))
                         THEN Append(targeted_seats, unwrap(get_seat(p)))
                         ELSE targeted_seats
    /\ passengers' = Append(passengers, p)
    /\ added' = added + 1
    /\ UNCHANGED <<size, layout, panicked, driver>>

\* One call of update().
Update ==
    /\ ~panicked
    /\ driver.pc = "idle"
    /\ LET s == update(size, layout, passengers)
       IN  /\ layout' = s.layout
           /\ passengers' = s.passengers
           /\ panicked' = s.panicked
    /\ UNCHANGED <<size, targeted_seats, added, driver>>

\* A call of set_tile, made during configuration only: while no passenger
\* is on the grid.
SetTile ==
    \E c \in Coords(size), var \in Variant :
        /\ ~panicked
        /\ driver.pc = "idle"
        /\ OnBoard(layout) = {}
        /\ layout' = set_tile(layout, c[1], c[2], var)
        /\ Cardinality(NonAisle(layout')) <= MaxTiles
        /\ UNCHANGED <<size, passengers, targeted_seats, panicked, added,
                       driver>>

\* The passenger added has any in-grid target, or none (Person::new without
\* target_seat).
AddPassenger ==
    \E t \in {NoneOpt} \cup {Some(c) : c \in Coords(size)}, b \in BOOLEAN :
        add_passenger(Person(added + 1, t, b))

Next == SetTile \/ AddPassenger \/ Update

Spec == Init /\ [][Next]_vars

(* ------------------- the cabins of the test suite ---------------------- *)
\* config::standard_layout(size_x, size_y): a central aisle column, Seat
\* tiles either side, the Entrance at the bottom of the aisle.
StdWidth(size_x) == IF size_x % 2 = 0 THEN size_x + 1 ELSE size_x

standard_layout(size_x, size_y) ==
    LET sx == StdWidth(size_x)
        a == sx \div 2
    IN  [c \in Coords(<<sx, size_y>>) |->
            IF c = <<a, size_y - 1>> THEN entrance
            ELSE IF c[1] # a THEN seat ELSE aisle]

\* Person::new followed by target_seat and set_baggage; name n is the
\* position in the order of the add_passenger calls.
RECURSIVE Board(_, _)
Board(ts, n) ==
    IF n = 0 THEN <<>>
    ELSE Append(Board(ts, n - 1), Person(n, Some(ts[n][1]), ts[n][2]))

Targets(q) == [n \in DOMAIN q |-> unwrap(q[n].seat)]

NoBag(ts) == [n \in DOMAIN ts |-> <<ts[n], FALSE>>]
Bag(ts) == [n \in DOMAIN ts |-> <<ts[n], TRUE>>]

\* The set-up of each test of src/aircraft/mod.rs: the cabin, the passengers
\* in add_passenger order, and the number of update() calls of its loop.
Tests ==
    { [name |-> "get_size", size |-> <<5, 6>>,
       layout |-> new(5, 6),
       queue |-> <<>>,
       ticks |-> 0],
      [name |-> "test_is_complete", size |-> <<5, 5>>,
       layout |-> standard_layout(5, 5),
       queue |-> NoBag(<< <<0, 0>>, <<1, 0>>, <<3, 0>>, <<4, 0>> >>),
       ticks |-> 15],
      [name |-> "bad_order", size |-> <<5, 5>>,
       layout |-> standard_layout(5, 5),
       queue |-> NoBag(<< <<0, 0>>, <<1, 0>>, <<4, 0>>, <<3, 0>>,
                          <<0, 1>>, <<1, 1>>, <<4, 1>>, <<3, 1>>,
                          <<0, 2>>, <<1, 2>>, <<4, 2>>, <<3, 2>> >>),
       ticks |-> 20],
      [name |-> "advanced_aisle_ignoring", size |-> <<3, 3>>,
       layout |-> standard_layout(3, 3),
       queue |-> NoBag(<< <<0, 0>>, <<2, 0>>, <<0, 1>>, <<2, 1>>,
                          <<0, 2>>, <<2, 2>> >>),
       ticks |-> 10],
      [name |-> "aisle_shifting", size |-> <<5, 5>>,
       layout |-> standard_layout(5, 5),
       queue |-> NoBag(<< <<0, 0>>, <<1, 0>> >>),
       ticks |-> 10],
      [name |-> "aisle_ignoring", size |-> <<5, 5>>,
       layout |-> standard_layout(5, 5),
       queue |-> NoBag(<< <<4, 0>> >>),
       ticks |-> 10],
      [name |-> "baggage", size |-> <<5, 5>>,
       layout |-> standard_layout(5, 5),
       queue |-> Bag(<< <<0, 0>> >>),
       ticks |-> 8],
      [name |-> "advanced_stowing", size |-> <<5, 5>>,
       layout |-> standard_layout(5, 5),
       queue |-> Bag(<< <<0, 0>>, <<4, 4>> >>),
       ticks |-> 15],
      [name |-> "impassable_terrain", size |-> <<3, 3>>,
       layout |-> [c \in Coords(<<3, 3>>) |->
                     IF c = <<0, 0>> THEN entrance
                     ELSE IF c \in {<<0, 1>>, <<1, 1>>, <<1, 0>>} THEN none
                     ELSE aisle],
       queue |-> NoBag(<< <<2, 2>> >>),
       ticks |-> 100] }

InitTests ==
    \E t \in Tests :
        /\ size = t.size
        /\ layout = t.layout
        /\ passengers = Board(t.queue, Len(t.queue))
        /\ targeted_seats = Targets(Board(t.queue, Len(t.queue)))
        /\ panicked = FALSE
        /\ added = Len(t.queue)
        /\ driver = Driver("test", t.name)

TestTicks(name) == (CHOOSE t \in Tests : t.name = name).ticks

\* for _ in 0..ticks { aircraft.update(); }
TestUpdate ==
    /\ ~panicked
    /\ driver.pc = "test"
    /\ driver.iterations < TestTicks(driver.test)
    /\ LET s == update(size, layout, passengers)
       IN  /\ layout' = s.layout
           /\ passengers' = s.passengers
           /\ panicked' = s.panicked
    /\ driver' = [driver EXCEPT !.iterations = @ + 1, !.calls = @ + 1]
    /\ UNCHANGED <<size, targeted_seats, added>>

NextTests == TestUpdate

SpecTests == InitTests /\ [][NextTests]_vars

(* ----------------------- boarding generators --------------------------- *)
\* Concatenation of F(0), F(1), .., F(n - 1).
FlatMap(n, F(_)) ==
    LET f[k \in 0 .. n] == IF k = 0 THEN <<>> ELSE f[k - 1] \o F(k - 1)
    IN  f[n]

\* The generators of src/config/mod.rs.  The outcomes of shuffle() are an
\* argument: xs[y + 1] is the order the shuffled x coordinates of row y come
\* in, ys[x + 1] the order of the shuffled y coordinates of column pair x,
\* cs the order of the shuffled indices of the coordinate list.  Each
\* returns the pairs (target, baggage) of the passengers in push order.
\* Variant of random_back_first that does not skip the aisle column.
random_back_first_WithAisle(size_x, size_y, xs) ==
    LET Row(y) == [n \in 1 .. Len(xs[y + 1]) |->
                      << <<xs[y + 1][n], size_y - (y + 1)>>, TRUE >>]
    IN  FlatMap(size_y, Row)

random_back_first(size_x, size_y, xs) ==
    LET a == StdWidth(size_x) \div 2
        Row(y) == LET f == SelectSeq(xs[y + 1], LAMBDA x : x # a)
                  IN  [n \in 1 .. Len(f) |->
                          << <<f[n], size_y - (y + 1)>>, TRUE >>]
    IN  FlatMap(size_y, Row)

random_front_first(size_x, size_y, xs) ==
    LET a == StdWidth(size_x) \div 2
        Row(y) == LET f == SelectSeq(xs[y + 1], LAMBDA x : x # a)
                  IN  [n \in 1 .. Len(f) |-> << <<f[n], y>>, TRUE >>]
    IN  FlatMap(size_y, Row)

random_window_first(size_x, size_y, ys) ==
    LET a == StdWidth(size_x) \div 2
        Col(x) == FlatMap(Len(ys[x + 1]),
                     LAMBDA k : << << <<a - (x + 1), ys[x + 1][k + 1]>>, TRUE >>,
                                   << <<a + (x + 1), ys[x + 1][k + 1]>>, TRUE >> >>)
    IN  FlatMap(a, Col)

random_aisle_first(size_x, size_y, ys) ==
    LET sx == StdWidth(size_x)
        a == sx \div 2
        Col(x) == FlatMap(Len(ys[x + 1]),
                     LAMBDA k : << << <<x, ys[x + 1][k + 1]>>, TRUE >>,
                                   << <<sx - (x + 1), ys[x + 1][k + 1]>>, TRUE >> >>)
    IN  FlatMap(a, Col)

\* The coordinate list random() builds before it shuffles it.
random_coords(size_x, size_y) ==
    LET sx == StdWidth(size_x)
        a == sx \div 2
        Col(x) == IF x # a THEN [n \in 1 .. size_y |-> <<x, n - 1>>]
                  ELSE <<>>
    IN  FlatMap(sx, Col)

random(size_x, size_y, cs) ==
    LET coords == random_coords(size_x, size_y)
    IN  [n \in 1 .. Len(cs) |-> <<coords[cs[n] + 1], TRUE>>]

\* Outcomes of shuffle() on 0 .. 4 that the boardings below are built from.
Shuffles == { <<0, 1, 2, 3, 4>>, <<4, 3, 2, 1, 0>>, <<1, 3, 0, 4, 2>> }

\* Full boardings of the 5x5 standard cabin: one passenger per seat.
Boardings ==
    UNION { { random_back_first(5, 5, [y \in 1 .. 5 |-> p]),
              random_front_first(5, 5, [y \in 1 .. 5 |-> p]),
              random_window_first(5, 5, [x \in 1 .. 2 |-> p]),
              random_aisle_first(5, 5, [x \in 1 .. 2 |-> p]) } :
            p \in Shuffles }

\* The generated passengers carry baggage; the tests board passengers
\* without (set_baggage is never called on them).
InitBoarding ==
    \E ts \in Boardings, b \in BOOLEAN :
        LET q == Board([n \in DOMAIN ts |-> <<ts[n][1], ts[n][2] /\ b>>],
                       Len(ts))
        IN  /\ size = <<5, 5>>
            /\ layout = standard_layout(5, 5)
            /\ passengers = q
            /\ targeted_seats = Targets(q)
            /\ panicked = FALSE
            /\ added = Len(ts)
            /\ driver = Driver("board", "boarding")

\* for _ in 0..MaxBoardTicks { aircraft.update(); }
BoardUpdate ==
    /\ ~panicked
    /\ driver.pc = "board"
    /\ driver.iterations < MaxBoardTicks
    /\ LET s == update(size, layout, passengers)
       IN  /\ layout' = s.layout
           /\ passengers' = s.passengers
           /\ panicked' = s.panicked
    /\ driver' = [driver EXCEPT !.iterations = @ + 1, !.calls = @ + 1]
    /\ UNCHANGED <<size, targeted_seats, added>>

NextBoarding == BoardUpdate

SpecBoarding == InitBoarding /\ [][NextBoarding]_vars

(* ------------------- calls of the boarding generators ------------------ *)
\* The permutations of 0 .. n - 1, as sequences.
Perms(n) ==
    {f \in [1 .. n -> 0 .. n - 1] :
        \A i, j \in 1 .. n : i # j => f[i] # f[j]}

\* The outcomes of shuffle() on a list of n elements that are explored:
\* every permutation of a short list; the identity, the reversal and a
\* rotation of a longer one.
ShuffleOutcomes(n) ==
    IF n <= MaxShuffle THEN Perms(n)
    ELSE { [k \in 1 .. n |-> k - 1], [k \in 1 .. n |-> n - k],
           [k \in 1 .. n |-> k % n] }

Generators == {"random_back_first", "random_front_first",
               "random_window_first", "random_aisle_first", "random"}

\* The lists generator g can return for (size_x, size_y), as passengers.
GenOutcomes(g, size_x, size_y) ==
    LET sx == StdWidth(size_x)
        rows == [1 .. size_y -> ShuffleOutcomes(sx)]
        cols == [1 .. sx \div 2 -> ShuffleOutcomes(size_y)]
        all == ShuffleOutcomes(Len(random_coords(size_x, size_y)))
        lists ==
            CASE g = "random_back_first" ->
                     {random_back_first(size_x, size_y, xs) : xs \in rows}
              [] g = "random_front_first" ->
                     {random_front_first(size_x, size_y, xs) : xs \in rows}
              [] g = "random_window_first" ->
                     {random_window_first(size_x, size_y, ys) : ys \in cols}
              [] g = "random_aisle_first" ->
                     {random_aisle_first(size_x, size_y, ys) : ys \in cols}
              [] g = "random" ->
                     {random(size_x, size_y, cs) : cs \in all}
    IN  {Board(ts, Len(ts)) : ts \in lists}

\* A caller about to call generator g with (size_x, size_y); the cabin is
\* not involved.
InitGen ==
    \E g \in Generators, w \in 0 .. MaxGenW, h \in 0 .. MaxGenH :
        /\ size = <<1, 1>>
        /\ layout = new(1, 1)
        /\ passengers = <<>>
        /\ targeted_seats = <<>>
        /\ panicked = FALSE
        /\ added = 0
        /\ driver = [pc |-> "call", test |-> g, size_x |-> w, size_y |-> h,
                     result |-> <<>>]

\* The call returns Ok(persons).
GenCall ==
    /\ driver.pc = "call"
    /\ \E r \in GenOutcomes(driver.test, driver.size_x, driver.size_y) :
          driver' = [driver EXCEPT !.pc = "returned", !.result = r]
    /\ UNCHANGED <<size, layout, passengers, targeted_seats, panicked, added>>

NextGen == GenCall

SpecGen == InitGen /\ [][NextGen]_vars

(* --------------------------- Person::update ---------------------------- *)
\* The candidate table of Person::update: the two offsets, which are
\* applied as pos - 1 + offset, and the Behaviour that goes with them.
PersonMoves == << <<0, 1, "Move_North">>, <<1, 0, "Move_North">>,
                 <<1, 2, "Move_South">>, <<2, 1, "Move_East">> >>

\* One pass of the loop: the candidate replaces the current move if its
\* squared distance to the target is strictly smaller.
PersonCandidate(pos, target, cand, cur) ==
    LET dest_x == pos[1] + (cand[1] - 1)
        dest_y == pos[2] + (cand[2] - 1)
        new_distance == (target[1] - dest_x) * (target[1] - dest_x)
                        + (target[2] - dest_y) * (target[2] - dest_y)
    IN  IF new_distance < cur[2] THEN <<cand[3], new_distance>> ELSE cur

RECURSIVE PersonLoop(_, _, _, _)
PersonLoop(pos, target, k, cur) ==
    IF k > Len(PersonMoves) THEN cur
    ELSE PersonLoop(pos, target, k + 1,
                    PersonCandidate(pos, target, PersonMoves[k], cur))

\* Person::update(pos, grid): grid is not read.  "Panic" stands for the
\* unwrap() of a missing target.
person_update(p, pos) ==
    IF ~is_some(get_seat(p)) THEN "Panic"
    ELSE PersonLoop(pos, unwrap(get_seat(p)), 1,
                    <<"Wait", InitialDistance>>)[1]

PersonCoords == (0 .. MaxPos) \X (0 .. MaxPos)

\* A caller about to call update(pos, grid) on a person with or without a
\* target; the cabin is not involved.
InitPerson ==
    \E pos \in PersonCoords,
       t \in {NoneOpt} \cup {Some(c) : c \in PersonCoords} :
        /\ size = <<1, 1>>
        /\ layout = new(1, 1)
        /\ passengers = <<>>
        /\ targeted_seats = <<>>
        /\ panicked = FALSE
        /\ added = 0
        /\ driver = [pc |-> "call", test |-> "Person::update",
                     person |-> Person(1, t, FALSE), pos |-> pos,
                     result |-> "Wait"]

\* The call returns a Behaviour, or panics.
PersonUpdate ==
    /\ driver.pc = "call"
    /\ LET r == person_update(driver.person, driver.pos)
       IN  IF r = "Panic"
           THEN /\ panicked' = TRUE
                /\ driver' = [driver EXCEPT !.pc = "panicked"]
           ELSE /\ panicked' = FALSE
                /\ driver' = [driver EXCEPT !.pc = "returned", !.result = r]
    /\ UNCHANGED <<size, layout, passengers, targeted_seats, added>>

NextPerson == PersonUpdate

SpecPerson == InitPerson /\ [][NextPerson]_vars

(* ---------------- one passenger in a standard cabin -------------------- *)
\* standard_layout(w, h) with a single passenger bound for one of its seats,
\* with or without baggage; the caller then calls update() repeatedly.
InitSingle ==
    \E w \in 1 .. MaxStdW, h \in 1 .. MaxStdH, b \in BOOLEAN :
        \E t \in {c \in Coords(<<StdWidth(w), h>>) :
                     get_variant(standard_layout(w, h)[c]) = "Seat"} :
            /\ size = <<StdWidth(w), h>>
            /\ layout = standard_layout(w, h)
            /\ passengers = <<Person(1, Some(t), b)>>
            /\ targeted_seats = <<t>>
            /\ panicked = FALSE
            /\ added = 1
            /\ driver = Driver("single",
                               IF b THEN "baggage" ELSE "no_baggage")

\* for _ in 0..MaxSingleTicks { aircraft.update(); }
SingleUpdate ==
    /\ ~panicked
    /\ driver.pc = "single"
    /\ driver.iterations < MaxSingleTicks
    /\ LET s == update(size, layout, passengers)
       IN  /\ layout' = s.layout
           /\ passengers' = s.passengers
           /\ panicked' = s.panicked
    /\ driver' = [driver EXCEPT !.iterations = @ + 1, !.calls = @ + 1]
    /\ UNCHANGED <<size, targeted_seats, added>>

NextSingle == SingleUpdate

SpecSingle == InitSingle /\ [][NextSingle]_vars

(* ------------------------- a very long cabin --------------------------- *)
\* A single aisle of FarH tiles with the Entrance at its far end, and one
\* passenger bound for one of the first tiles of the aisle.
InitFar ==
    \E ty \in 0 .. 3, b \in BOOLEAN :
        /\ size = <<1, FarH>>
        /\ layout = [new(1, FarH) EXCEPT ![<<0, FarH - 1>>] = entrance]
        /\ passengers = <<Person(1, Some(<<0, ty>>), b)>>
        /\ targeted_seats = << <<0, ty>> >>
        /\ panicked = FALSE
        /\ added = 1
        /\ driver = Driver("far", "far")

\* for _ in 0..MaxFarTicks { aircraft.update(); }
FarUpdate ==
    /\ ~panicked
    /\ driver.pc = "far"
    /\ driver.iterations < MaxFarTicks
    /\ LET s == update(size, layout, passengers)
       IN  /\ layout' = s.layout
           /\ passengers' = s.passengers
           /\ panicked' = s.panicked
    /\ driver' = [driver EXCEPT !.iterations = @ + 1, !.calls = @ + 1]
    /\ UNCHANGED <<size, targeted_seats, added>>

NextFar == FarUpdate

SpecFar == InitFar /\ [][NextFar]_vars

(* ------------------------ a single row of seats ------------------------ *)
\* A cabin of one row: the Entrance at (0, 0) and Seat tiles East of it, with
\* three passengers bound for any of the seats (two may share a target).
InitRow ==
    \E ts \in [1 .. 3 -> (1 .. MaxRowW - 1) \X {0}], bs \in [1 .. 3 -> BOOLEAN] :
        LET q == Board([n \in 1 .. 3 |-> <<ts[n], bs[n]>>], 3)
        IN  /\ size = <<MaxRowW, 1>>
            /\ layout = [c \in Coords(<<MaxRowW, 1>>) |->
                            IF c = <<0, 0>> THEN entrance ELSE seat]
            /\ passengers = q
            /\ targeted_seats = Targets(q)
            /\ panicked = FALSE
            /\ added = 3
            /\ driver = Driver("row", "row")

\* for _ in 0..MaxRowTicks { aircraft.update(); }
RowUpdate ==
    /\ ~panicked
    /\ driver.pc = "row"
    /\ driver.iterations < MaxRowTicks
    /\ LET s == update(size, layout, passengers)
       IN  /\ layout' = s.layout
           /\ passengers' = s.passengers
           /\ panicked' = s.panicked
    /\ driver' = [driver EXCEPT !.iterations = @ + 1, !.calls = @ + 1]
    /\ UNCHANGED <<size, targeted_seats, added>>

NextRow == RowUpdate

SpecRow == InitRow /\ [][NextRow]_vars

(* ---------------------- an aisle beside a column of seats -------------- *)
\* A cabin of two columns: column 1 is the aisle, with an Entrance at its
\* south end; column 0 has a second Entrance at its north end and Seat tiles
\* below it.  LinePassengers passengers board, bound for tiles of the two
\* northern rows.
LineCabin ==
    [c \in Coords(<<2, MaxLineH>>) |->
        IF c = <<1, MaxLineH - 1>> \/ c = <<0, 0>> THEN entrance
        ELSE IF c[1] = 1 THEN aisle ELSE seat]

LineTargets == (0 .. 1) \X (0 .. 1)

InitLine ==
    \E ts \in [1 .. LinePassengers -> LineTargets],
       bs \in [1 .. LinePassengers -> BOOLEAN] :
        LET q == Board([n \in 1 .. LinePassengers |-> <<ts[n], bs[n]>>],
                       LinePassengers)
        IN  /\ size = <<2, MaxLineH>>
            /\ layout = LineCabin
            /\ passengers = q
            /\ targeted_seats = Targets(q)
            /\ panicked = FALSE
            /\ added = LinePassengers
            /\ driver = Driver("line", "line")

\* for _ in 0..MaxLineTicks { aircraft.update(); }
LineUpdate ==
    /\ ~panicked
    /\ driver.pc = "line"
    /\ driver.iterations < MaxLineTicks
    /\ LET s == update(size, layout, passengers)
       IN  /\ layout' = s.layout
           /\ passengers' = s.passengers
           /\ panicked' = s.panicked
    /\ driver' = [driver EXCEPT !.iterations = @ + 1, !.calls = @ + 1]
    /\ UNCHANGED <<size, targeted_seats, added>>

NextLine == LineUpdate

SpecLine == InitLine /\ [][NextLine]_vars

(* ------------------------ run_to_completion ---------------------------- *)
\* Variant of LoopCond that only counts the iterations.
LoopCond_CountOnly(lay, ts, iterations) ==
    iterations < MAX_ITERATIONS

\* while !self.is_complete() && iterations < MAX_ITERATIONS
LoopCond(lay, ts, iterations) ==
    ~is_complete(lay, ts) /\ iterations < MAX_ITERATIONS

\* Variant of RunResult that reports success whatever the cabin is.
RunResult_AlwaysOk(lay, ts) == "ok"

\* if self.is_complete() { Ok(iterations) } else { Err(..) }
RunResult(lay, ts) == IF is_complete(lay, ts) THEN "ok" ELSE "err"

\* The cabins run_to_completion() is called on: the set-ups of the tests.
InitRun ==
    \E t \in Tests :
        /\ size = t.size
        /\ layout = t.layout
        /\ passengers = Board(t.queue, Len(t.queue))
        /\ targeted_seats = Targets(Board(t.queue, Len(t.queue)))
        /\ panicked = FALSE
        /\ added = Len(t.queue)
        /\ driver = Driver("idle", t.name)

\* let mut iterations = 0;
RunCall ==
    /\ ~panicked
    /\ driver.pc = "idle"
    /\ driver' = [driver EXCEPT !.pc = "run", !.iterations = 0]
    /\ UNCHANGED <<size, layout, passengers, targeted_seats, panicked, added>>

\* One pass of the loop body: update(); iterations += 1.
RunLoop ==
    /\ ~panicked
    /\ driver.pc = "run"
    /\ LoopCond(layout, targeted_seats, driver.iterations)
    /\ LET s == update(size, layout, passengers)
       IN  /\ layout' = s.layout
           /\ passengers' = s.passengers
           /\ panicked' = s.panicked
    /\ driver' = [driver EXCEPT
                    !.iterations = @ + 1,
                    !.calls = @ + 1,
                    !.early = @ \/ is_complete(layout, targeted_seats)]
    /\ UNCHANGED <<size, targeted_seats, added>>

\* The loop has ended: the result is decided by is_complete().
RunReturn ==
    /\ ~panicked
    /\ driver.pc = "run"
    /\ ~LoopCond(layout, targeted_seats, driver.iterations)
    /\ driver' = [driver EXCEPT !.pc = RunResult(layout, targeted_seats)]
    /\ UNCHANGED <<size, layout, passengers, targeted_seats, panicked, added>>

NextRun == RunCall \/ RunLoop \/ RunReturn

SpecRun == InitRun /\ [][NextRun]_vars

(* ----------------------- observers for the claims ---------------------- *)
\* Every passenger of the cabin, with the place it is in.
Queued ==
    {[p |-> passengers[n], at |-> <<"queue", n>>] : n \in DOMAIN passengers}
Occupiers(lay) ==
    {[p |-> unwrap(lay[c].occupier), at |-> <<"occupier", c>>] :
        c \in {d \in DOMAIN lay : is_some(lay[d].occupier)}}
Passers(lay) ==
    {[p |-> unwrap(lay[c].passer), at |-> <<"passer", c>>] :
        c \in {d \in DOMAIN lay : is_some(lay[d].passer)}}
Places == Queued \cup Occupiers(layout) \cup Passers(layout)

\* The tile a passenger is on, as a set (empty when it is not on the grid).
TileOf(lay, n) ==
    {c \in DOMAIN lay :
        \/ (is_some(lay[c].occupier) /\ unwrap(lay[c].occupier).name = n)
        \/ (is_some(lay[c].passer) /\ unwrap(lay[c].passer).name = n)}

Dist(c, d) == Abs(c[1] - d[1]) + Abs(c[2] - d[2])

\* No two passengers were added with the same target.
DistinctTargets ==
    \A m, n \in DOMAIN targeted_seats :
        m # n => targeted_seats[m] # targeted_seats[n]

TestDone == driver.pc = "test" /\ driver.iterations = TestTicks(driver.test)

(* ------------------------------ claims --------------------------------- *)
\* C1: no passenger is in two places: every passenger is in at most one of
\* the queue positions, occupier slots and passer slots of the cabin.
C1_OnePlace ==
    \A a, b \in Places : a.p.name = b.p.name => a.at = b.at

\* C1 witness: after moves and a pass-in, two passengers share one tile (one
\* as occupier, one as passer) and nobody is queued.
C1_Witness ==
    /\ passengers = <<>>
    /\ \E c \in DOMAIN layout :
          is_some(layout[c].occupier) /\ is_some(layout[c].passer)

\* C2 (as claimed): no tile of kind None holds a passenger, as occupier or
\* as passer.
C2_NoneEmpty ==
    \A c \in DOMAIN layout :
        get_variant(layout[c]) = "None" =>
            ~is_some(layout[c].occupier) /\ ~is_some(layout[c].passer)

\* C3 (as claimed): between update() calls, a tile that holds a passer also
\* holds an occupier.
C3_PasserHasOccupier ==
    \A c \in DOMAIN layout :
        is_some(layout[c].passer) => is_some(layout[c].occupier)

\* C4 (as claimed, for passengers with distinct targets): only Seat tiles
\* hold a passer; no Aisle, Entrance or None tile does.
C4_PasserOnSeatOnly ==
    DistinctTargets =>
        \A c \in DOMAIN layout :
            is_some(layout[c].passer) => get_variant(layout[c]) = "Seat"

\* C5: one update() moves every passenger at most once, and leaves every
\* passenger that was on the grid at most one cell from where it was.
C5_SingleMove ==
    ~panicked =>
        LET s == update(size, layout, passengers)
        IN  /\ \A m, n \in DOMAIN s.moved : m # n => s.moved[m] # s.moved[n]
            /\ \A n \in 1 .. added :
                  \A c \in TileOf(layout, n) :
                      \A d \in TileOf(s.layout, n) : Dist(c, d) <= 1

\* C5 witness: the next update() moves a passenger into the passer slot of a
\* tile that the scan reaches later (east or south of its source).
C5_Witness ==
    /\ ~panicked
    /\ LET s == update(size, layout, passengers)
       IN  \E n \in 1 .. added :
              \E c \in TileOf(layout, n) :
                  \E d \in TileOf(s.layout, n) :
                      /\ \E m \in DOMAIN s.moved : s.moved[m] = n
                      /\ (d[1] > c[1] \/ d[2] > c[2])
                      /\ is_some(s.layout[d].passer)
                      /\ unwrap(s.layout[d].passer).name = n

\* C6 (as claimed, for the orders of the tests): after the 15, 20 and 10
\* update() calls of test_is_complete, bad_order and
\* advanced_aisle_ignoring, is_complete() is true.
C6_TestsComplete ==
    (TestDone /\ driver.test \in {"test_is_complete", "bad_order",
                                  "advanced_aisle_ignoring"})
        => is_complete(layout, targeted_seats)

\* C7 (as claimed): with one passenger per seat of the 5x5 standard cabin,
\* is_complete() is true after 15 update() calls.
C7_Within15 ==
    driver.iterations = 15 => is_complete(layout, targeted_seats)

\* C7 (amended): with one passenger per seat of the 5x5 standard cabin,
\* is_complete() is false after each of the first 20 update() calls.
C7_NotWithin20 ==
    driver.iterations <= 20 => ~is_complete(layout, targeted_seats)

\* C7 witness: 15 update() calls have been made; 15 passengers are on board
\* and 5 are still queued.
C7_Witness ==
    /\ driver.iterations = 15
    /\ Len(passengers) = 5
    /\ Cardinality(Occupiers(layout) \cup Passers(layout)) = 15

\* C8 (as claimed, for passengers with distinct targets): whenever
\* is_complete() is true, every passenger is the occupier of its own target
\* tile.
C8_CompleteMeansSeated ==
    (DistinctTargets /\ ~panicked /\ is_complete(layout, targeted_seats)) =>
        \A a \in Places :
            is_some(a.p.seat) => a.at = <<"occupier", unwrap(a.p.seat)>>

C10_RunOk ==
    driver.pc = "ok" =>
        /\ is_complete(layout, targeted_seats)
        /\ driver.iterations <= MAX_ITERATIONS
        /\ driver.calls = driver.iterations
        /\ ~driver.early

\* C10 witness: run_to_completion() has returned Ok(k) with k > 0.
C10_Witness ==
    driver.pc = "ok" /\ driver.iterations > 0 /\ driver.calls > 0

\* Variant of run_to_completion(): the number of steps the call can still
\* take.
RunRank ==
    CASE driver.pc = "idle" -> MAX_ITERATIONS + 2
      [] driver.pc = "run" -> MAX_ITERATIONS + 1 - driver.iterations
      [] OTHER -> 0

\* C11: run_to_completion() terminates (every step of the call decreases
\* a variant that is never negative, and the call is never stuck before it
\* returns); it returns the failure value exactly when is_complete() is
\* false after 1000 update() calls, and returning leaves the cabin as the
\* last update() left it.
C11_RunErr ==
    /\ [][RunRank' < RunRank]_vars
    /\ [](RunRank >= 0 /\ (driver.pc \in {"idle", "run"} => ~panicked))
    /\ [](driver.pc \in {"ok", "err"} =>
            (driver.pc = "err"
                <=> /\ ~is_complete(layout, targeted_seats)
                    /\ driver.calls = MAX_ITERATIONS
                    /\ driver.iterations = MAX_ITERATIONS))
    /\ [][driver'.pc \in {"ok", "err"} =>
            /\ layout' = layout
            /\ passengers' = passengers
            /\ targeted_seats' = targeted_seats]_vars

\* C11 witness: the call has returned the failure value after 1000
\* update() calls, with passengers on the grid.
C11_Witness ==
    /\ driver.pc = "err"
    /\ driver.calls = MAX_ITERATIONS
    /\ OnBoard(layout) # {}

\* C12 (as claimed): update() does not abort while a passenger that has no
\* target seat is in the boarding queue or on the grid.
C12_NoTargetNoAbort ==
    (\E a \in Places : ~is_some(a.p.seat)) => ~panicked

\* The Entrance tile a passenger occupies, as a set.
EntranceOf(lay, p) ==
    {c \in DOMAIN lay : /\ get_variant(lay[c]) = "Entrance"
                        /\ get_occupier(lay[c]) = Some(p)}

\* c comes before d in the scan of update() (x outer, y inner).
ScanBefore(c, d) == c[1] < d[1] \/ (c[1] = d[1] /\ c[2] < d[2])

\* C13: an update() that admits passengers removes them from the tail of
\* the queue and leaves the rest of the queue as it was; every admitted
\* passenger is then the occupier of an Entrance tile, one per Entrance, the
\* later added on the Entrance the scan reaches first; nobody is lost.
C13_LIFO ==
    [][Len(passengers') < Len(passengers) =>
        /\ passengers' = SubSeq(passengers, 1, Len(passengers'))
        /\ \A n \in Len(passengers') + 1 .. Len(passengers) :
               EntranceOf(layout', passengers[n]) # {}
        /\ \A m, n \in Len(passengers') + 1 .. Len(passengers) :
               m < n => \A c \in EntranceOf(layout', passengers[n]) :
                           \A d \in EntranceOf(layout', passengers[m]) :
                               ScanBefore(c, d)
        /\ {a.p.name : a \in Places'} = {a.p.name : a \in Places}]_vars

\* C13 witness: with a single Entrance and two passengers added, the one
\* added last is on the grid and the one added first is still queued.
C13_Witness ==
    /\ Cardinality({c \in DOMAIN layout :
                       get_variant(layout[c]) = "Entrance"}) = 1
    /\ Len(passengers) = 1
    /\ passengers[1].name = 1
    /\ TileOf(layout, 2) # {}

\* A passenger on the grid that is on its target tile with no baggage.
Arrived(a) ==
    /\ a.at[1] # "queue"
    /\ a.p.seat = Some(a.at[2])
    /\ ~a.p.baggage

\* C14: a passenger that is on its target tile with its baggage stowed is
\* in the same slot of the same tile after every step, whatever the other
\* passengers do.
C14_TargetTerminal ==
    [][\A a \in Places : Arrived(a) => a \in Places']_vars

\* C14 witness: a passenger sits on its target Seat, baggage stowed, while
\* another passenger is in the passer slot of the same tile.
C14_Witness ==
    \E a \in Occupiers(layout) :
        /\ Arrived(a)
        /\ get_variant(layout[a.at[2]]) = "Seat"
        /\ is_some(layout[a.at[2]].passer)

\* The tick at which a single passenger of a standard cabin reaches its
\* target: 1 + |ty - (H - 1)| + |tx - a| + (1 if it has baggage).
ArrivalTick ==
    1 + Abs(targeted_seats[1][2] - (size[2] - 1))
      + Abs(targeted_seats[1][1] - (size[1] \div 2))
      + (IF driver.test = "baggage" THEN 1 ELSE 0)

Stowers ==
    {a \in Occupiers(layout) \cup Passers(layout) :
        /\ get_variant(layout[a.at[2]]) \in {"Aisle", "Entrance"}
        /\ is_some(a.p.seat)
        /\ unwrap(a.p.seat)[2] = a.at[2][2]
        /\ a.p.baggage}

\* C16 (as claimed): a passenger with baggage on an Aisle or Entrance tile
\* of its target row is, after the next update(), in the same slot of the
\* same tile with its baggage flag cleared.
C16_StowsOnRow ==
    ~panicked =>
        LET s == update(size, layout, passengers)
        IN  ~s.panicked =>
                \A a \in Stowers :
                    [p |-> remove_baggage(a.p), at |-> a.at]
                        \in Occupiers(s.layout) \cup Passers(s.layout)

\* The passengers with a target that stand on an Aisle or Entrance tile of
\* a row other than their target row.
OffRow ==
    {a \in Occupiers(layout) \cup Passers(layout) :
        /\ get_variant(layout[a.at[2]]) \in {"Aisle", "Entrance"}
        /\ is_some(a.p.seat)
        /\ unwrap(a.p.seat)[2] # a.at[2][2]}

\* C17: update() leaves the x coordinate of every passenger that stands on
\* an Aisle or Entrance tile off its target row unchanged.
C17_NoSidestep ==
    ~panicked =>
        LET s == update(size, layout, passengers)
        IN  \A a \in OffRow :
                \A d \in TileOf(s.layout, a.p.name) : d[1] = a.at[2][1]

\* C17 witness: a passenger off its target row waits although a free
\* lateral neighbour is closer to its target than the tile it is on.
C17_Witness ==
    /\ ~panicked
    /\ \E a \in OffRow :
          LET c == a.at[2]
              t == unwrap(a.p.seat)
          IN  /\ a.at[1] = "occupier"
              /\ determine_move(size, layout, c[1], c[2], t[1], t[2],
                                a.p.baggage)[1] = "Wait"
              /\ \E d \in DOMAIN layout :
                    /\ d[2] = c[2]
                    /\ Dist(d, c) = 1
                    /\ ~is_occupied(layout[d])
                    /\ Dist(d, t) < Dist(c, t)

\* The passengers with a target that are on a Seat tile.
OnSeat ==
    {a \in Occupiers(layout) \cup Passers(layout) :
        get_variant(layout[a.at[2]]) = "Seat" /\ is_some(a.p.seat)}

\* C18: update() leaves every passenger that is on a Seat tile on the same
\* row, at most one cell East or West of where it was.
C18_SeatKeepsRow ==
    ~panicked =>
        LET s == update(size, layout, passengers)
        IN  \A a \in OnSeat :
                \A d \in TileOf(s.layout, a.p.name) :
                    d[2] = a.at[2][2] /\ Dist(d, a.at[2]) <= 1

\* C18 witness: a passenger is on a Seat tile of a row other than its
\* target row, and the tile North or South of it is free and closer to its
\* target.
C18_Witness ==
    /\ ~panicked
    /\ \E a \in OnSeat :
          \E d \in DOMAIN layout :
              /\ d[1] = a.at[2][1]
              /\ Dist(d, a.at[2]) = 1
              /\ ~is_occupied(layout[d])
              /\ Dist(d, unwrap(a.p.seat)) < Dist(a.at[2], unwrap(a.p.seat))

\* The occupiers with a target that stand on an Aisle or Entrance tile and
\* are not about to stow.
Walkers ==
    {a \in Occupiers(layout) :
        /\ get_variant(layout[a.at[2]]) \in {"Aisle", "Entrance"}
        /\ is_some(a.p.seat)
        /\ ~(unwrap(a.p.seat)[2] = a.at[2][2] /\ a.p.baggage)}

\* The neighbours of c that are acceptable to a passenger bound for t and
\* strictly closer to t than c: in the grid, on the target row when East
\* or West of c, and free or a Seat with an empty passer slot.
Closer(c, t) ==
    {d \in DOMAIN layout :
        /\ Dist(d, c) = 1
        /\ d[2] = c[2] => c[2] = t[2]
        /\ \/ ~is_occupied(layout[d])
           \/ (get_variant(layout[d]) = "Seat" /\ ~is_allowing(layout[d]))
        /\ Dist(d, t) < Dist(c, t)}

\* C19 (as claimed): for a passenger on an Aisle or Entrance tile that is
\* not stowing, determine_move returns Wait only when no acceptable
\* neighbour is strictly closer to the target than the current tile, and
\* otherwise a closest acceptable neighbour.
C19_ClosestNeighbour ==
    \A a \in Walkers :
        LET c == a.at[2]
            t == unwrap(a.p.seat)
            mv == determine_move(size, layout, c[1], c[2], t[1], t[2],
                                 a.p.baggage)[1]
        IN  IF Closer(c, t) = {}
            THEN mv = "Wait"
            ELSE /\ MoveCoords(mv, c[1], c[2]) \in Closer(c, t)
                 /\ \A d \in Closer(c, t) :
                        Dist(MoveCoords(mv, c[1], c[2]), t) <= Dist(d, t)

\* A tile whose two slots are taken.
FullTile(t) == is_occupied(t) /\ is_allowing(t)

\* The passengers on the grid whose move, as determine_move chooses it in
\* this state, leads to a tile that holds an occupier and a passer.
Blocked ==
    {a \in Occupiers(layout) \cup Passers(layout) :
        /\ is_some(a.p.seat)
        /\ LET c == a.at[2]
               t == unwrap(a.p.seat)
               mv == determine_move(size, layout, c[1], c[2], t[1], t[2],
                                    a.p.baggage)[1]
               d == MoveCoords(mv, c[1], c[2])
           IN  /\ mv \in {"Move_North", "Move_South", "Move_East",
                          "Move_West"}
               /\ d \in DOMAIN layout
               /\ FullTile(layout[d])}

\* The tile a blocked passenger has chosen.
ChosenTile(a) ==
    LET c == a.at[2]
        t == unwrap(a.p.seat)
    IN  MoveCoords(determine_move(size, layout, c[1], c[2], t[1], t[2],
                                  a.p.baggage)[1], c[1], c[2])

\* C20: update() neither loses nor duplicates a passenger (nobody is
\* overwritten in a slot that was taken), and a passenger whose chosen tile
\* holds an occupier and a passer, both still there after the update(), is
\* in the same slot of its source tile after the update().
C20_NoOverwrite ==
    ~panicked =>
        LET s == update(size, layout, passengers)
            after == Occupiers(s.layout) \cup Passers(s.layout)
        IN  /\ {a.p.name : a \in after}
                   \cup {s.passengers[n].name : n \in DOMAIN s.passengers}
                   = {a.p.name : a \in Places}
            /\ Cardinality(after) + Len(s.passengers) = Cardinality(Places)
            /\ \A a \in Blocked :
                   (/\ s.layout[ChosenTile(a)].occupier
                          = layout[ChosenTile(a)].occupier
                    /\ s.layout[ChosenTile(a)].passer
                          = layout[ChosenTile(a)].passer)
                       => a \in after

\* C20 witness: a passenger has chosen a tile that holds an occupier and a
\* passer, and the next update() leaves those two where they are.
C20_Witness ==
    /\ ~panicked
    /\ LET s == update(size, layout, passengers)
       IN  \E a \in Blocked :
              /\ s.layout[ChosenTile(a)].occupier
                    = layout[ChosenTile(a)].occupier
              /\ s.layout[ChosenTile(a)].passer
                    = layout[ChosenTile(a)].passer

\* Every Entrance of the cabin has only None tiles around it.
EntrancesEnclosed ==
    /\ \E c \in DOMAIN layout : get_variant(layout[c]) = "Entrance"
    /\ \A c, d \in DOMAIN layout :
          (get_variant(layout[c]) = "Entrance" /\ Dist(c, d) = 1)
              => get_variant(layout[d]) = "None"

\* C21: in the cabin of impassable_terrain no update() aborts and (2, 2)
\* is never occupied; in any cabin whose Entrances are enclosed by None
\* tiles, no Aisle or Seat tile ever holds a passenger.
C21_Enclosed ==
    /\ driver.test = "impassable_terrain"
          => ~panicked /\ ~is_occupied(layout[<<2, 2>>])
    /\ EntrancesEnclosed =>
          \A c \in DOMAIN layout :
              get_variant(layout[c]) \in {"Aisle", "Seat"}
                  => ~is_occupied(layout[c]) /\ ~is_allowing(layout[c])

\* C21 witness: the 100 update() calls of impassable_terrain have been made
\* and the passenger has left the Entrance.
C21_Witness ==
    /\ TestDone
    /\ driver.test = "impassable_terrain"
    /\ EntrancesEnclosed
    /\ passengers = <<>>
    /\ ~is_occupied(layout[<<0, 0>>])

\* The passengers on the grid that have a target.
Bound == {a \in Occupiers(layout) \cup Passers(layout) : is_some(a.p.seat)}

\* The move determine_move chooses for a passenger of Bound.
ChosenMove(a) ==
    determine_move(size, layout, a.at[2][1], a.at[2][2], unwrap(a.p.seat)[1],
                   unwrap(a.p.seat)[2], has_baggage(a.p))

\* C22: for a passenger whose target is in the grid, the move chosen never
\* indexes outside the layout and its destination is inside the grid, and
\* update() aborts only when a passenger on the grid has no target.
C22_MovesInGrid ==
    /\ \A a \in Bound :
          InGrid(size, unwrap(a.p.seat)[1], unwrap(a.p.seat)[2]) =>
              LET m == ChosenMove(a)
                  d == MoveCoords(m[1], a.at[2][1], a.at[2][2])
              IN  m[1] # "Panic" /\ InGrid(size, d[1], d[2])
    /\ ~panicked =>
          (update(size, layout, passengers).panicked =>
              \E a \in Occupiers(layout) \cup Passers(layout) :
                  ~is_some(a.p.seat))

\* C22 witness: a passenger on the last column and the last row of the grid
\* chooses a move, and the update() that executes it does not abort.
C22_Witness ==
    /\ ~panicked
    /\ \E a \in Bound :
          /\ a.at[2] = <<size[1] - 1, size[2] - 1>>
          /\ ChosenMove(a)[1] \in {"Move_North", "Move_West"}
          /\ ~update(size, layout, passengers).panicked
          /\ TileOf(update(size, layout, passengers).layout, a.p.name)
                 # {a.at[2]}

\* The grid as the scan of update() leaves it, before reset().
Scanned ==
    Scan(size, ScanState(layout, passengers, FALSE, NoMoves), 0,
         size[1] * size[2])

Flagged(lay) == {c \in DOMAIN lay : has_updated(lay[c])}

\* C23: between two calls of update() no tile has its updated flag set, and
\* an update() that returns leaves no tile with the flag set.
C23_FlagsCleared ==
    ~panicked =>
        /\ Flagged(layout) = {}
        /\ LET s == update(size, layout, passengers)
           IN  ~s.panicked => Flagged(s.layout) = {}

\* C23 witness: the scan of an update() that returns sets the flag of
\* several tiles, one of them by a pass-in.
C23_Witness ==
    /\ ~panicked /\ ~Scanned.panicked
    /\ Cardinality(Flagged(Scanned.layout)) >= 2
    /\ \E c \in Flagged(Scanned.layout) :
          is_allowing(Scanned.layout[c]) /\ ~is_allowing(layout[c])
    /\ Flagged(update(size, layout, passengers).layout) = {}

\* A cabin with nobody in the queue and nobody on the grid.
EmptyCabin == passengers = <<>> /\ OnBoard(layout) = {}

\* C24: update() on a cabin with an empty queue and no passenger on the
\* grid returns, moves nobody and leaves the layout (kinds, slots, flags)
\* and the queue as they were.
C24_EmptyNoop ==
    (~panicked /\ EmptyCabin) =>
        LET s == update(size, layout, passengers)
        IN  /\ ~s.panicked
            /\ s.layout = layout
            /\ s.passengers = passengers
            /\ s.moved = NoMoves

\* C24 witness: an empty cabin that has an Entrance, a Seat and a None tile,
\* on which update() changes nothing.
C24_Witness ==
    /\ ~panicked /\ EmptyCabin
    /\ \A k \in {"Entrance", "Seat", "None"} :
          \E c \in DOMAIN layout : get_variant(layout[c]) = k
    /\ update(size, layout, passengers).layout = layout

OddUp(w) == w + 1 - (w % 2)

\* C26: the list a generator returns for (W, H) has (W' - 1) * H passengers,
\* W' being W rounded up to odd; every passenger has baggage and a target
\* inside the W' x H grid and off the aisle column W' / 2, no two targets
\* are equal, and so every seat of the standard layout is targeted once;
\* random_back_first(5, 10) returns 40 passengers.
C26_Generated ==
    /\ driver.pc = "returned" =>
          LET r == driver.result
              w == OddUp(driver.size_x)
              h == driver.size_y
          IN  /\ Len(r) = (w - 1) * h
              /\ \A n \in DOMAIN r :
                    /\ is_some(get_seat(r[n]))
                    /\ InGrid(<<w, h>>, unwrap(get_seat(r[n]))[1],
                              unwrap(get_seat(r[n]))[2])
                    /\ unwrap(get_seat(r[n]))[1] # w \div 2
                    /\ has_baggage(r[n])
              /\ \A m, n \in DOMAIN r :
                    m # n => get_seat(r[m]) # get_seat(r[n])
              /\ {unwrap(get_seat(r[n])) : n \in DOMAIN r}
                     = {c \in Coords(<<w, h>>) : c[1] # w \div 2}
    /\ \A p \in Shuffles :
          Len(random_back_first(5, 10, [y \in 1 .. 10 |-> p])) = 40

\* C26 witness: a generator called with an even width and a shuffle that is
\* not the identity has returned twelve passengers.
C26_Witness ==
    /\ driver.pc = "returned"
    /\ driver.size_x = 4 /\ driver.size_y = 3
    /\ Len(driver.result) = 12
    /\ unwrap(get_seat(driver.result[1])) # <<0, 0>>
    /\ has_baggage(driver.result[12])

\* The four neighbours of pos, by the Behaviour that names their direction.
Neighbour(b, pos) == MoveCoords(b, pos[1], pos[2])

Directions == {"Move_North", "Move_South", "Move_East", "Move_West"}

SqDist(c, d) ==
    (c[1] - d[1]) * (c[1] - d[1]) + (c[2] - d[2]) * (c[2] - d[2])

\* C27 (as claimed): Person::update returns the Behaviour naming the
\* direction of a 4-neighbour of pos with the smallest squared Euclidean
\* distance to the target; in particular Move_East, Move_South, Move_West
\* or Move_North when the target is that neighbour.
C27_NamesClosest ==
    driver.pc = "returned" =>
        LET t == unwrap(get_seat(driver.person))
            r == driver.result
        IN  /\ r \in Directions
            /\ \A b \in Directions :
                  SqDist(Neighbour(r, driver.pos), t)
                      <= SqDist(Neighbour(b, driver.pos), t)
            /\ \A b \in Directions :
                  Neighbour(b, driver.pos) = t => r = b

\* The number of passengers a cabin state holds: the queue, the occupier
\* slots and the passer slots.
Held(lay, q) ==
    Len(q) + Cardinality({c \in DOMAIN lay : is_occupied(lay[c])})
           + Cardinality({c \in DOMAIN lay : is_allowing(lay[c])})

\* C28: in every state the queue, the occupier slots and the passer slots
\* together hold as many passengers as were added, and update() keeps
\* that number.
C28_Conserved ==
    /\ Held(layout, passengers) = added
    /\ ~panicked =>
          LET s == update(size, layout, passengers)
          IN  Held(s.layout, s.passengers) = added

\* C28 witness: an update() admits one passenger from the queue and takes
\* another out of a passer slot into an occupier slot.
C28_Witness ==
    /\ ~panicked /\ added > 1
    /\ LET s == update(size, layout, passengers)
       IN  /\ ~s.panicked
           /\ Len(s.passengers) < Len(passengers)
           /\ \E a \in Passers(layout) :
                 \E b \in Occupiers(s.layout) :
                     b.p.name = a.p.name /\ b.at[2] # a.at[2]
           /\ Held(s.layout, s.passengers) = added

\* C29: update() leaves every passenger that is on the grid and has a
\* target either on its tile or on a tile whose Manhattan distance to the
\* target is smaller by exactly 1, whether it was an occupier or a passer.
C29_OneCloser ==
    ~panicked =>
        LET s == update(size, layout, passengers)
        IN  \A a \in Bound :
                \A d \in TileOf(s.layout, a.p.name) :
                    \/ d = a.at[2]
                    \/ Dist(d, unwrap(a.p.seat))
                           = Dist(a.at[2], unwrap(a.p.seat)) - 1

\* C29 witness: one update() moves a passer and an occupier that is on a
\* Seat tile, each to a tile closer to its target.
C29_Witness ==
    /\ ~panicked
    /\ LET s == update(size, layout, passengers)
       IN  /\ ~s.panicked
           /\ \E a \in Bound :
                 /\ a.at[1] = "passer"
                 /\ TileOf(s.layout, a.p.name) # {a.at[2]}
           /\ \E a \in Bound :
                 /\ a.at[1] = "occupier"
                 /\ get_variant(layout[a.at[2]]) = "Seat"
                 /\ \E d \in TileOf(s.layout, a.p.name) :
                       Dist(d, unwrap(a.p.seat))
                           = Dist(a.at[2], unwrap(a.p.seat)) - 1

\* The occupiers of Entrance tiles that an update() returning s has moved
\* off their tile.
Vacated(s) ==
    {a \in Occupiers(layout) :
        /\ get_variant(layout[a.at[2]]) = "Entrance"
        /\ TileOf(s.layout, a.p.name) # {a.at[2]}}

QueueNames == {passengers[n].name : n \in DOMAIN passengers}

Entrances == {c \in DOMAIN layout : get_variant(layout[c]) = "Entrance"}

\* C30: when an update() that returns has moved the occupier of an Entrance
\* away, that Entrance is occupied by a passenger taken from the queue,
\* unless the other Entrances have emptied the queue; with a single
\* Entrance the queue is then shorter by one; and every passenger the
\* update() admitted is the occupier of an Entrance when it returns.
C30_AdmittedInScan ==
    ~panicked =>
        LET s == update(size, layout, passengers)
        IN  ~s.panicked =>
              /\ \A a \in Vacated(s) :
                    \/ /\ is_occupied(s.layout[a.at[2]])
                       /\ unwrap(get_occupier(s.layout[a.at[2]])).name
                              \in QueueNames
                    \/ s.passengers = <<>>
              /\ (Vacated(s) # {} /\ passengers # <<>>
                  /\ Cardinality(Entrances) = 1)
                     => Len(s.passengers) = Len(passengers) - 1
              /\ \A n \in QueueNames :
                    \A d \in TileOf(s.layout, n) :
                        /\ get_variant(s.layout[d]) = "Entrance"
                        /\ is_occupied(s.layout[d])
                        /\ unwrap(get_occupier(s.layout[d])).name = n

\* C30 witness: an update() moves the occupier of the Entrance away and
\* puts the last passenger of a queue of several on the Entrance.
C30_Witness ==
    /\ ~panicked /\ Len(passengers) > 1
    /\ LET s == update(size, layout, passengers)
       IN  /\ ~s.panicked
           /\ \E a \in Vacated(s) :
                 /\ is_occupied(s.layout[a.at[2]])
                 /\ unwrap(get_occupier(s.layout[a.at[2]])).name
                        = passengers[Len(passengers)].name
           /\ Len(s.passengers) = Len(passengers) - 1

\* Cells (x, y + 1) .. (x, y + k) are Aisle cells whose occupiers have a
\* target row strictly north of their row, and (x, y) is an unoccupied
\* Aisle cell.
NorthLine(x, y, k) ==
    /\ k >= 1
    /\ <<x, y + k>> \in DOMAIN layout
    /\ get_variant(layout[<<x, y>>]) = "Aisle"
    /\ ~is_occupied(layout[<<x, y>>])
    /\ \A i \in 1 .. k :
          LET t == layout[<<x, y + i>>]
          IN  /\ get_variant(t) = "Aisle"
              /\ is_occupied(t)
              /\ is_some(get_seat(unwrap(get_occupier(t))))
              /\ unwrap(get_seat(unwrap(get_occupier(t))))[2] < y + i

\* In lay every passenger of the line is the occupier of the cell north of
\* the one it occupied.
Advanced(lay, x, y, k) ==
    \A i \in 1 .. k :
        get_occupier(lay[<<x, y + i - 1>>]) = get_occupier(layout[<<x, y + i>>])

\* In lay the cell (x, y) is occupied by a passenger that is not the head
\* of the line.
Entered(lay, x, y) ==
    /\ is_occupied(lay[<<x, y>>])
    /\ get_occupier(lay[<<x, y>>]) # get_occupier(layout[<<x, y + 1>>])

\* In lay a cell of the line holds a passer it did not hold before.
PassedInto(lay, x, y, k) ==
    \E i \in 1 .. k :
        /\ is_allowing(lay[<<x, y + i>>])
        /\ get_passer(lay[<<x, y + i>>]) # get_passer(layout[<<x, y + i>>])

Lines ==
    {l \in (DOMAIN layout) \X (1 .. MaxLineH) : NorthLine(l[1][1], l[1][2], l[2])}

\* C31 (as claimed): after one update() every passenger of a northbound
\* line below an unoccupied Aisle cell has moved one cell north.
C31_BlockAdvances ==
    ~panicked =>
        LET s == update(size, layout, passengers)
        IN  \A l \in Lines : Advanced(s.layout, l[1][1], l[1][2], l[2])

\* C31 (amended): after one update() every passenger of the line has moved
\* one cell north, unless a passenger scanned earlier has taken the
\* unoccupied cell or has passed into a cell of the line.
C31_BlockAdvancesUnlessEntered ==
    ~panicked =>
        LET s == update(size, layout, passengers)
        IN  ~s.panicked =>
              \A l \in Lines :
                  \/ Advanced(s.layout, l[1][1], l[1][2], l[2])
                  \/ Entered(s.layout, l[1][1], l[1][2])
                  \/ PassedInto(s.layout, l[1][1], l[1][2], l[2])

\* C31 witness: a line of two passengers advances as a block in one
\* update().
C31_Witness ==
    /\ ~panicked
    /\ \E l \in Lines :
          /\ l[2] = 2
          /\ Advanced(update(size, layout, passengers).layout, l[1][1],
                      l[1][2], 2)

\* The kinds of the tiles are those of standard_layout for the size of the
\* cabin.
StandardCabin ==
    /\ size[1] % 2 = 1
    /\ \A c \in DOMAIN layout :
          get_variant(layout[c])
              = get_variant(standard_layout(size[1], size[2])[c])

\* The passengers with baggage and a target that are on an Aisle or
\* Entrance tile.
Carriers ==
    {a \in Bound :
        /\ get_variant(layout[a.at[2]]) \in {"Aisle", "Entrance"}
        /\ has_baggage(a.p)}

\* C32: update() leaves every passenger that has baggage and is on an Aisle
\* or Entrance tile on its column; and in a cabin with the standard layout
\* no passenger on a Seat tile has baggage.
C32_NoSidewaysWithBaggage ==
    /\ ~panicked =>
          LET s == update(size, layout, passengers)
          IN  \A a \in Carriers :
                  \A d \in TileOf(s.layout, a.p.name) : d[1] = a.at[2][1]
    /\ StandardCabin =>
          \A a \in Occupiers(layout) \cup Passers(layout) :
              get_variant(layout[a.at[2]]) = "Seat" => ~has_baggage(a.p)

\* C32 witness: in a standard cabin a passenger with baggage stands in the
\* aisle on its target row, East or West of its seat, and update() leaves
\* it there without its baggage, while a passenger that boarded before it
\* is on a Seat tile.
C32_Witness ==
    /\ ~panicked /\ StandardCabin
    /\ \E a \in Carriers :
          /\ unwrap(a.p.seat)[2] = a.at[2][2]
          /\ unwrap(a.p.seat)[1] # a.at[2][1]
          /\ [p |-> remove_baggage(a.p), at |-> a.at]
                 \in Occupiers(update(size, layout, passengers).layout)
    /\ \E a \in Occupiers(layout) :
          get_variant(layout[a.at[2]]) = "Seat" /\ ~has_baggage(a.p)

====
